---------------------------- MODULE Spec2Model ----------------------------
(***************************************************************************)
(* Model of the two iOS compatibility headers of the repository:          *)
(*   src/Scripts/ios-elf.h          ELF constants, record layouts and the  *)
(*                                   relocation-info helper macros         *)
(*   src/Scripts/ios-math-compat.h  float classification fallbacks         *)
(*                                                                         *)
(* TLC's integers are 32 bits wide, so a uint64_t is a tuple of four       *)
(* 16-bit limbs <<l3, l2, l1, l0>> (most significant first) and a uint32_t *)
(* a tuple of two; shifts, masks, additions and comparisons are computed   *)
(* on the limbs, modulo 2^64 resp. 2^32.                                   *)
(***************************************************************************)
EXTENDS Integers, Sequences, FiniteSets

VARIABLES reloc, layout, konst, ident, sym, flt, cpp

vars == <<reloc, layout, konst, ident, sym, flt, cpp>>

\* The value of a subsystem's variable in a specification that does not run it.
Idle == [phase |-> "idle", pc |-> "idle"]

----------------------------------------------------------------------------
(* Fixed-width unsigned arithmetic on 16-bit limbs.                        *)

RECURSIVE Pow2(_)
Pow2(n) == IF n = 0 THEN 1 ELSE 2 * Pow2(n - 1)

LimbBits == 2 * 8
LimbMod  == Pow2(LimbBits)

RECURSIVE BitAndN(_, _, _)
BitAndN(a, b, n) ==
    IF n = 0 THEN 0
    ELSE (a % 2) * (b % 2) + 2 * BitAndN(a \div 2, b \div 2, n - 1)

RECURSIVE BitOrN(_, _, _)
BitOrN(a, b, n) ==
    IF n = 0 THEN 0
    ELSE (IF (a % 2) + (b % 2) > 0 THEN 1 ELSE 0)
         + 2 * BitOrN(a \div 2, b \div 2, n - 1)

\* Limb of weight 2^(16*i) of the word x of Len(x) limbs; 0 outside the word.
LimbAt(x, i) == IF i >= 0 /\ i < Len(x) THEN x[Len(x) - i] ELSE 0

WordAnd(x, y) ==
    [k \in 1..Len(x) |-> BitAndN(x[k], y[k], LimbBits)]

WordOr(x, y) ==
    [k \in 1..Len(x) |-> BitOrN(x[k], y[k], LimbBits)]

\* x << n and x >> n for 0 <= n < 16*Len(x): bits shifted out are lost.
\* Position k of the tuple holds the limb of weight Len(x) - k.
WordShl(x, n) ==
    LET q == n \div LimbBits
        r == n % LimbBits
    IN  [k \in 1..Len(x) |->
            ((LimbAt(x, Len(x) - k - q) * Pow2(r)) % LimbMod)
            + (LimbAt(x, Len(x) - k - q - 1) \div Pow2(LimbBits - r))]

WordShr(x, n) ==
    LET q == n \div LimbBits
        r == n % LimbBits
    IN  [k \in 1..Len(x) |->
            (LimbAt(x, Len(x) - k + q) \div Pow2(r))
            + ((LimbAt(x, Len(x) - k + q + 1) % Pow2(r)) * Pow2(LimbBits - r))]

\* Carry into the limb of weight i when adding x and y.
RECURSIVE CarryInto(_, _, _)
CarryInto(x, y, i) ==
    IF i = 0 THEN 0
    ELSE (LimbAt(x, i - 1) + LimbAt(y, i - 1) + CarryInto(x, y, i - 1)) \div LimbMod

\* x + y modulo 2^(16*Len(x)): the carry out of the top limb is lost.
WordAdd(x, y) ==
    [k \in 1..Len(x) |->
        (x[k] + y[k] + CarryInto(x, y, Len(x) - k)) % LimbMod]

\* Unsigned x > y, most significant limb first.
RECURSIVE WordGtFrom(_, _, _)
WordGtFrom(x, y, k) ==
    IF k > Len(x) THEN FALSE
    ELSE IF x[k] # y[k] THEN x[k] > y[k]
    ELSE WordGtFrom(x, y, k + 1)

WordGt(x, y) == WordGtFrom(x, y, 1)

\* Integer constants as they appear in the headers, by their hex digits.
Hex64(l3, l2, l1, l0) == <<l3, l2, l1, l0>>
Hex32(l1, l0)         == <<l1, l0>>
\* The value of a word not yet computed.
NoWord == <<>>
\* A small non-negative int converted to uint64_t.
U64(n) == <<0, 0, n \div LimbMod, n % LimbMod>>

----------------------------------------------------------------------------
(* ios-elf.h, lines 10-84: the named constants.                            *)

\* ELF file types
ET_NONE == 0                      \* 0: No file type
ET_REL == 1                       \* 1: Relocatable file
ET_EXEC == 2                      \* 2: Executable file
ET_DYN == 3                       \* 3: Shared object file
ET_CORE == 4                      \* 4: Core file

\* ELF machine types
EM_NONE == 0                      \* 0: No machine
EM_386 == 3                       \* 3: Intel 80386
EM_X86_64 == 62                   \* 62: AMD x86-64 architecture
EM_AARCH64 == 183                 \* 183: ARM AARCH64

\* ELF class and data
ELFCLASS32 == 1                   \* 1: 32-bit objects
ELFCLASS64 == 2                   \* 2: 64-bit objects
ELFDATA2LSB == 1                  \* 1: 2's complement, little endian
ELFDATA2MSB == 2                  \* 2: 2's complement, big endian

\* ELF version
EV_NONE == 0                      \* 0: Invalid version
EV_CURRENT == 1                   \* 1: Current version

\* Section header types
SHT_NULL == 0                     \* 0: Section header table entry unused
SHT_PROGBITS == 1                 \* 1: Program data
SHT_SYMTAB == 2                   \* 2: Symbol table
SHT_STRTAB == 3                   \* 3: String table
SHT_RELA == 4                     \* 4: Relocation entries with addends
SHT_HASH == 5                     \* 5: Symbol hash table
SHT_DYNAMIC == 6                  \* 6: Dynamic linking information
SHT_NOTE == 7                     \* 7: Notes
SHT_NOBITS == 8                   \* 8: Program space with no data (bss)
SHT_REL == 9                      \* 9: Relocation entries, no addends
SHT_SHLIB == 10                   \* 10: Reserved
\* The last section type given the value of the one before it.
SHT_DYNSYM_dup == SHT_SHLIB

SHT_DYNSYM == 11                  \* 11: Dynamic linker symbol table

\* Section header flags
SHF_WRITE == Hex32(0, 1)          \* 0x1: Writable
SHF_ALLOC == Hex32(0, 2)          \* 0x2: Occupies memory during execution
SHF_EXECINSTR == Hex32(0, 4)      \* 0x4: Executable
SHF_MASKPROC == Hex32(61440, 0)   \* 0xf0000000: Processor-specific

\* Symbol binding
STB_LOCAL == 0                    \* 0: Local symbol
STB_GLOBAL == 1                   \* 1: Global symbol
\* The weak binding defined already shifted into the high nibble (0x20).
STB_WEAK_preshifted == 2 * 16

STB_WEAK == 2                     \* 2: Weak symbol
STB_NUM == 3                      \* 3: Number of defined types

\* Symbol type
STT_NOTYPE == 0                   \* 0: Symbol type is unspecified
STT_OBJECT == 1                   \* 1: Symbol is a data object
STT_FUNC == 2                     \* 2: Symbol is a code object
STT_SECTION == 3                  \* 3: Symbol associated with a section
STT_FILE == 4                     \* 4: Symbol's name is file name
STT_COMMON == 5                   \* 5: Symbol is a common data object
STT_TLS == 6                      \* 6: Symbol is thread-local data object
STT_NUM == 7                      \* 7: Number of defined types

\* Relocation types
R_X86_64_NONE == 0                \* 0: No reloc
R_X86_64_64 == 1                  \* 1: Direct 64 bit
R_X86_64_PC32 == 2                \* 2: PC relative 32 bit signed
R_X86_64_GOT32 == 3               \* 3: 32 bit GOT entry
R_X86_64_PLT32 == 4               \* 4: 32 bit PLT address
R_X86_64_COPY == 5                \* 5: Copy symbol at runtime
R_X86_64_GLOB_DAT == 6            \* 6: Create GOT entry
R_X86_64_JUMP_SLOT == 7           \* 7: Create PLT entry
R_X86_64_RELATIVE == 8            \* 8: Adjust by program base
R_X86_64_32 == 9                  \* 9: Direct 32 bit
R_X86_64_32S == 10                \* 10: Direct 32 bit sign extended
R_X86_64_16 == 11                 \* 11: Direct 16 bit
R_X86_64_PC16 == 12               \* 12: 16 bit sign extended pc relative
R_X86_64_8 == 13                  \* 13: Direct 8 bit
R_X86_64_PC8 == 14                \* 14: 8 bit sign extended pc relative

\* The families of names, as the header groups them.
FileTypeNames ==
    {"ET_NONE", "ET_REL", "ET_EXEC", "ET_DYN", "ET_CORE"}

MachineNames ==
    {"EM_NONE", "EM_386", "EM_X86_64", "EM_AARCH64"}

ClassNames ==
    {"ELFCLASS32", "ELFCLASS64"}

DataNames ==
    {"ELFDATA2LSB", "ELFDATA2MSB"}

VersionNames ==
    {"EV_NONE", "EV_CURRENT"}

SectionTypeNames ==
    {"SHT_NULL", "SHT_PROGBITS", "SHT_SYMTAB", "SHT_STRTAB",
     "SHT_RELA", "SHT_HASH", "SHT_DYNAMIC", "SHT_NOTE", "SHT_NOBITS",
     "SHT_REL", "SHT_SHLIB", "SHT_DYNSYM"}

SectionFlagNames ==
    {"SHF_WRITE", "SHF_ALLOC", "SHF_EXECINSTR", "SHF_MASKPROC"}

BindingNames ==
    {"STB_LOCAL", "STB_GLOBAL", "STB_WEAK"}

SymTypeNames ==
    {"STT_NOTYPE", "STT_OBJECT", "STT_FUNC", "STT_SECTION",
     "STT_FILE", "STT_COMMON", "STT_TLS"}

RelocNames ==
    {"R_X86_64_NONE", "R_X86_64_64", "R_X86_64_PC32",
     "R_X86_64_GOT32", "R_X86_64_PLT32", "R_X86_64_COPY",
     "R_X86_64_GLOB_DAT", "R_X86_64_JUMP_SLOT", "R_X86_64_RELATIVE",
     "R_X86_64_32", "R_X86_64_32S", "R_X86_64_16", "R_X86_64_PC16",
     "R_X86_64_8", "R_X86_64_PC8"}

Families ==
    {FileTypeNames, MachineNames, ClassNames, DataNames, VersionNames,
     SectionTypeNames, SectionFlagNames, BindingNames, SymTypeNames,
     RelocNames}

\* The preprocessor's replacement of a macro name by its replacement list.
MacroValue(name) ==
    CASE name = "ET_NONE" -> ET_NONE
      [] name = "ET_REL" -> ET_REL
      [] name = "ET_EXEC" -> ET_EXEC
      [] name = "ET_DYN" -> ET_DYN
      [] name = "ET_CORE" -> ET_CORE
      [] name = "EM_NONE" -> EM_NONE
      [] name = "EM_386" -> EM_386
      [] name = "EM_X86_64" -> EM_X86_64
      [] name = "EM_AARCH64" -> EM_AARCH64
      [] name = "ELFCLASS32" -> ELFCLASS32
      [] name = "ELFCLASS64" -> ELFCLASS64
      [] name = "ELFDATA2LSB" -> ELFDATA2LSB
      [] name = "ELFDATA2MSB" -> ELFDATA2MSB
      [] name = "EV_NONE" -> EV_NONE
      [] name = "EV_CURRENT" -> EV_CURRENT
      [] name = "SHT_NULL" -> SHT_NULL
      [] name = "SHT_PROGBITS" -> SHT_PROGBITS
      [] name = "SHT_SYMTAB" -> SHT_SYMTAB
      [] name = "SHT_STRTAB" -> SHT_STRTAB
      [] name = "SHT_RELA" -> SHT_RELA
      [] name = "SHT_HASH" -> SHT_HASH
      [] name = "SHT_DYNAMIC" -> SHT_DYNAMIC
      [] name = "SHT_NOTE" -> SHT_NOTE
      [] name = "SHT_NOBITS" -> SHT_NOBITS
      [] name = "SHT_REL" -> SHT_REL
      [] name = "SHT_SHLIB" -> SHT_SHLIB
      [] name = "SHT_DYNSYM" -> SHT_DYNSYM
      [] name = "SHF_WRITE" -> SHF_WRITE
      [] name = "SHF_ALLOC" -> SHF_ALLOC
      [] name = "SHF_EXECINSTR" -> SHF_EXECINSTR
      [] name = "SHF_MASKPROC" -> SHF_MASKPROC
      [] name = "STB_LOCAL" -> STB_LOCAL
      [] name = "STB_GLOBAL" -> STB_GLOBAL
      [] name = "STB_WEAK" -> STB_WEAK
      [] name = "STT_NOTYPE" -> STT_NOTYPE
      [] name = "STT_OBJECT" -> STT_OBJECT
      [] name = "STT_FUNC" -> STT_FUNC
      [] name = "STT_SECTION" -> STT_SECTION
      [] name = "STT_FILE" -> STT_FILE
      [] name = "STT_COMMON" -> STT_COMMON
      [] name = "STT_TLS" -> STT_TLS
      [] name = "R_X86_64_NONE" -> R_X86_64_NONE
      [] name = "R_X86_64_64" -> R_X86_64_64
      [] name = "R_X86_64_PC32" -> R_X86_64_PC32
      [] name = "R_X86_64_GOT32" -> R_X86_64_GOT32
      [] name = "R_X86_64_PLT32" -> R_X86_64_PLT32
      [] name = "R_X86_64_COPY" -> R_X86_64_COPY
      [] name = "R_X86_64_GLOB_DAT" -> R_X86_64_GLOB_DAT
      [] name = "R_X86_64_JUMP_SLOT" -> R_X86_64_JUMP_SLOT
      [] name = "R_X86_64_RELATIVE" -> R_X86_64_RELATIVE
      [] name = "R_X86_64_32" -> R_X86_64_32
      [] name = "R_X86_64_32S" -> R_X86_64_32S
      [] name = "R_X86_64_16" -> R_X86_64_16
      [] name = "R_X86_64_PC16" -> R_X86_64_PC16
      [] name = "R_X86_64_8" -> R_X86_64_8
      [] name = "R_X86_64_PC8" -> R_X86_64_PC8

\* The bitwise or of a set of words of two limbs.
RECURSIVE OrWords(_)
OrWords(W) ==
    IF W = {} THEN Hex32(0, 0)
    ELSE LET w == CHOOSE x \in W : TRUE
         IN  WordOr(w, OrWords(W \ {w}))

\* Conversion of a 32-bit unsigned value to uint64_t.
ZeroExtend64(w) == <<0, 0>> \o w

\* A consumer of the header fills the enumerated fields of one record
\* through the names: the state keeps the names used and the values stored.
KonstInit ==
    konst = [phase |-> "blank", names |-> <<>>, vals |-> <<>>,
             flags |-> {}, sh_flags |-> NoWord]

\* e_type, e_machine, e_ident[4] (class), e_ident[5] (data), e_version.
FillHeader ==
    /\ konst.phase = "blank"
    /\ \E ty \in FileTypeNames, ma \in MachineNames, cl \in ClassNames,
          da \in DataNames, ve \in VersionNames :
          konst' = [konst EXCEPT
                      !.phase = "ehdr",
                      !.names = <<ty, ma, cl, da, ve>>,
                      !.vals = <<MacroValue(ty), MacroValue(ma), MacroValue(cl),
                                 MacroValue(da), MacroValue(ve)>>]
    /\ UNCHANGED <<reloc, layout, ident, sym, flt, cpp>>

\* sh_type, and sh_flags as the or of any set of the flag bits.
FillSection ==
    /\ konst.phase = "blank"
    /\ \E ty \in SectionTypeNames, fl \in SUBSET SectionFlagNames :
          konst' = [konst EXCEPT
                      !.phase = "shdr",
                      !.names = <<ty>>,
                      !.vals = <<MacroValue(ty)>>,
                      !.flags = fl,
                      !.sh_flags =
                          ZeroExtend64(OrWords({MacroValue(f) : f \in fl}))]
    /\ UNCHANGED <<reloc, layout, ident, sym, flt, cpp>>

\* The binding and the type of a symbol.
FillSymbol ==
    /\ konst.phase = "blank"
    /\ \E bi \in BindingNames, ty \in SymTypeNames :
          konst' = [konst EXCEPT
                      !.phase = "sym",
                      !.names = <<bi, ty>>,
                      !.vals = <<MacroValue(bi), MacroValue(ty)>>]
    /\ UNCHANGED <<reloc, layout, ident, sym, flt, cpp>>

\* The type of a relocation.
FillRela ==
    /\ konst.phase = "blank"
    /\ \E ty \in RelocNames :
          konst' = [konst EXCEPT
                      !.phase = "rela",
                      !.names = <<ty>>,
                      !.vals = <<MacroValue(ty)>>]
    /\ UNCHANGED <<reloc, layout, ident, sym, flt, cpp>>

KonstNext == FillHeader \/ FillSection \/ FillSymbol \/ FillRela

InitKonst ==
    /\ KonstInit
    /\ reloc = Idle /\ layout = Idle /\ ident = Idle
    /\ sym = Idle /\ flt = Idle /\ cpp = Idle

SpecKonst == InitKonst /\ [][KonstNext]_vars

\* The value the specification's table documents for each name (the section
\* flags as 32-bit words: 0x1, 0x2, 0x4 and 0xf0000000).
Documented(name) ==
    CASE name = "ET_NONE" -> 0
      [] name = "ET_REL" -> 1
      [] name = "ET_EXEC" -> 2
      [] name = "ET_DYN" -> 3
      [] name = "ET_CORE" -> 4
      [] name = "EM_NONE" -> 0
      [] name = "EM_386" -> 3
      [] name = "EM_X86_64" -> 62
      [] name = "EM_AARCH64" -> 183
      [] name = "ELFCLASS32" -> 1
      [] name = "ELFCLASS64" -> 2
      [] name = "ELFDATA2LSB" -> 1
      [] name = "ELFDATA2MSB" -> 2
      [] name = "EV_NONE" -> 0
      [] name = "EV_CURRENT" -> 1
      [] name = "SHT_NULL" -> 0
      [] name = "SHT_PROGBITS" -> 1
      [] name = "SHT_SYMTAB" -> 2
      [] name = "SHT_STRTAB" -> 3
      [] name = "SHT_RELA" -> 4
      [] name = "SHT_HASH" -> 5
      [] name = "SHT_DYNAMIC" -> 6
      [] name = "SHT_NOTE" -> 7
      [] name = "SHT_NOBITS" -> 8
      [] name = "SHT_REL" -> 9
      [] name = "SHT_SHLIB" -> 10
      [] name = "SHT_DYNSYM" -> 11
      [] name = "SHF_WRITE" -> Hex32(0, 1)
      [] name = "SHF_ALLOC" -> Hex32(0, 2)
      [] name = "SHF_EXECINSTR" -> Hex32(0, 4)
      [] name = "SHF_MASKPROC" -> Hex32(61440, 0)
      [] name = "STB_LOCAL" -> 0
      [] name = "STB_GLOBAL" -> 1
      [] name = "STB_WEAK" -> 2
      [] name = "STT_NOTYPE" -> 0
      [] name = "STT_OBJECT" -> 1
      [] name = "STT_FUNC" -> 2
      [] name = "STT_SECTION" -> 3
      [] name = "STT_FILE" -> 4
      [] name = "STT_COMMON" -> 5
      [] name = "STT_TLS" -> 6
      [] name = "R_X86_64_NONE" -> 0
      [] name = "R_X86_64_64" -> 1
      [] name = "R_X86_64_PC32" -> 2
      [] name = "R_X86_64_GOT32" -> 3
      [] name = "R_X86_64_PLT32" -> 4
      [] name = "R_X86_64_COPY" -> 5
      [] name = "R_X86_64_GLOB_DAT" -> 6
      [] name = "R_X86_64_JUMP_SLOT" -> 7
      [] name = "R_X86_64_RELATIVE" -> 8
      [] name = "R_X86_64_32" -> 9
      [] name = "R_X86_64_32S" -> 10
      [] name = "R_X86_64_16" -> 11
      [] name = "R_X86_64_PC16" -> 12
      [] name = "R_X86_64_8" -> 13
      [] name = "R_X86_64_PC8" -> 14

\* C6: every value a record receives through a name is the value the
\* specification's table gives that name, and no two names of one family
\* have the same value.
ConstantsMatchTable ==
    konst.phase # "blank" =>
        /\ \A i \in 1..Len(konst.names) :
              konst.vals[i] = Documented(konst.names[i])
        /\ konst.phase = "shdr" =>
              konst.sh_flags =
                  ZeroExtend64(OrWords({Documented(f) : f \in konst.flags}))
        /\ \A F \in Families : \A a \in F, b \in F :
              a # b => MacroValue(a) # MacroValue(b)

ConstantsWitness ==
    /\ konst.phase = "shdr"
    /\ konst.names = <<"SHT_DYNSYM">>
    /\ konst.flags = SectionFlagNames
    /\ konst.sh_flags = Hex64(0, 0, 61440, 7)

----------------------------------------------------------------------------
(* ios-elf.h, lines 86-130: the four record layouts.  A member is          *)
(* F(name, type, count): count > 1 for an array.                           *)

F(name, type, count) == [name |-> name, type |-> type, count |-> count]

\* Width in bytes of the member types the header uses.
SizeOf(type) ==
    CASE type = "unsigned char" -> 1
      [] type = "uint16_t" -> 2
      [] type = "uint32_t" -> 4
      [] type = "uint64_t" -> 8
      [] type = "int64_t" -> 8

\* Natural alignment: a scalar is aligned to its own size, an array to the
\* size of its element.
AlignOf(type) == SizeOf(type)

Elf64_Ehdr ==
    <<F("e_ident", "unsigned char", 16),
      F("e_type", "uint16_t", 1),
      F("e_machine", "uint16_t", 1),
      F("e_version", "uint32_t", 1),
      F("e_entry", "uint64_t", 1),
      F("e_phoff", "uint64_t", 1),
      F("e_shoff", "uint64_t", 1),
      F("e_flags", "uint32_t", 1),
      F("e_ehsize", "uint16_t", 1),
      F("e_phentsize", "uint16_t", 1),
      F("e_phnum", "uint16_t", 1),
      F("e_shentsize", "uint16_t", 1),
      F("e_shnum", "uint16_t", 1),
      F("e_shstrndx", "uint16_t", 1)>>

Elf64_Shdr ==
    <<F("sh_name", "uint32_t", 1),
      F("sh_type", "uint32_t", 1),
      F("sh_flags", "uint64_t", 1),
      F("sh_addr", "uint64_t", 1),
      F("sh_offset", "uint64_t", 1),
      F("sh_size", "uint64_t", 1),
      F("sh_link", "uint32_t", 1),
      F("sh_info", "uint32_t", 1),
      F("sh_addralign", "uint64_t", 1),
      F("sh_entsize", "uint64_t", 1)>>

\* The symbol entry with st_shndx declared uint32_t.
Elf64_Sym_wide_shndx ==
    <<F("st_name", "uint32_t", 1),
      F("st_info", "unsigned char", 1),
      F("st_other", "unsigned char", 1),
      F("st_shndx", "uint32_t", 1),
      F("st_value", "uint64_t", 1),
      F("st_size", "uint64_t", 1)>>

Elf64_Sym ==
    <<F("st_name", "uint32_t", 1),
      F("st_info", "unsigned char", 1),
      F("st_other", "unsigned char", 1),
      F("st_shndx", "uint16_t", 1),
      F("st_value", "uint64_t", 1),
      F("st_size", "uint64_t", 1)>>

Elf64_Rela ==
    <<F("r_offset", "uint64_t", 1),
      F("r_info", "uint64_t", 1),
      F("r_addend", "int64_t", 1)>>

RecordNames == {"Elf64_Ehdr", "Elf64_Shdr", "Elf64_Sym", "Elf64_Rela"}

Members(rec) ==
    CASE rec = "Elf64_Ehdr" -> Elf64_Ehdr
      [] rec = "Elf64_Shdr" -> Elf64_Shdr
      [] rec = "Elf64_Sym" -> Elf64_Sym
      [] rec = "Elf64_Rela" -> Elf64_Rela

\* The least multiple of a that is >= n.
AlignUp(n, a) == ((n + a - 1) \div a) * a

Max(a, b) == IF a >= b THEN a ELSE b

\* A byte no member owns.
PadByte == 0 - 1

\* n copies of the value b.
Fill(n, b) == [k \in 1..n |-> b]

\* The records are serialized with member k holding the byte
\* (fill + k) % 256 in each of its bytes, for fill in 0..MaxFill.
MaxFill == 3

LayoutInit ==
    \E rec \in RecordNames, fill \in 0..MaxFill :
        layout = [phase |-> "members", rec |-> rec, fill |-> fill,
                  placed |-> 0, offs |-> <<>>, pad |-> 0, align |-> 1,
                  bytes |-> <<>>, size |-> 0]

\* The next member goes to the first offset its alignment allows.
PlaceMember ==
    /\ layout.phase = "members"
    /\ layout.placed < Len(Members(layout.rec))
    /\ LET k   == layout.placed + 1
           m   == Members(layout.rec)[k]
           cur == Len(layout.bytes)
           off == AlignUp(cur, AlignOf(m.type))
       IN  layout' = [layout EXCEPT
                        !.placed = k,
                        !.offs = Append(layout.offs, off),
                        !.pad = layout.pad + (off - cur),
                        !.align = Max(layout.align, AlignOf(m.type)),
                        !.bytes = layout.bytes \o Fill(off - cur, PadByte)
                                  \o Fill(SizeOf(m.type) * m.count,
                                          (layout.fill + k) % 256)]
    /\ UNCHANGED <<reloc, konst, ident, sym, flt, cpp>>

\* After the last member the record is padded to a multiple of its
\* alignment: sizeof.
CloseRecord ==
    /\ layout.phase = "members"
    /\ layout.placed = Len(Members(layout.rec))
    /\ LET cur == Len(layout.bytes)
           end == AlignUp(cur, layout.align)
       IN  layout' = [layout EXCEPT
                        !.phase = "done",
                        !.pad = layout.pad + (end - cur),
                        !.bytes = layout.bytes \o Fill(end - cur, PadByte),
                        !.size = end]
    /\ UNCHANGED <<reloc, konst, ident, sym, flt, cpp>>

LayoutNext == PlaceMember \/ CloseRecord

InitLayout ==
    /\ LayoutInit
    /\ reloc = Idle /\ konst = Idle /\ ident = Idle
    /\ sym = Idle /\ flt = Idle /\ cpp = Idle

SpecLayout == InitLayout /\ [][LayoutNext]_vars

\* The sum of the widths of the first n members.
RECURSIVE WidthsBefore(_, _)
WidthsBefore(ms, n) ==
    IF n = 0 THEN 0
    ELSE WidthsBefore(ms, n - 1) + SizeOf(ms[n].type) * ms[n].count

DocumentedSize(rec) ==
    CASE rec = "Elf64_Ehdr" -> 64
      [] rec = "Elf64_Shdr" -> 64
      [] rec = "Elf64_Sym" -> 24
      [] rec = "Elf64_Rela" -> 24

\* C5: natural alignment inserts no padding in any of the four records:
\* every member lies at the sum of the widths of the members before it, and
\* the records take 64, 64, 24 and 24 bytes, each byte owned by a member.
NoPaddingAndSizes ==
    /\ layout.pad = 0
    /\ \A k \in 1..layout.placed :
          /\ layout.offs[k] = WidthsBefore(Members(layout.rec), k - 1)
          /\ layout.bytes[layout.offs[k] + 1] = (layout.fill + k) % 256
    /\ \A b \in 1..Len(layout.bytes) : layout.bytes[b] # PadByte
    /\ layout.phase = "done" =>
          /\ layout.size = DocumentedSize(layout.rec)
          /\ Len(layout.bytes) = layout.size

LayoutWitness ==
    /\ layout.phase = "done"
    /\ layout.rec = "Elf64_Sym"
    /\ layout.placed = 6
    /\ layout.offs = <<0, 4, 5, 6, 8, 16>>

----------------------------------------------------------------------------
(* ios-elf.h, lines 132-137 and 88: the identification bytes.              *)

\* The value of a character constant in the execution character set (ASCII).
UpperCase ==
    <<"A", "B", "C", "D", "E", "F", "G", "H", "I", "J", "K", "L", "M",
      "N", "O", "P", "Q", "R", "S", "T", "U", "V", "W", "X", "Y", "Z">>

CharLit(c) == 64 + (CHOOSE i \in 1..Len(UpperCase) : UpperCase[i] = c)

EI_NIDENT == 16                   \* #define EI_NIDENT 16
ELFMAG0 == 127                    \* #define ELFMAG0 0x7f

\* The second magic byte in lower case.
ELFMAG1_lower == CharLit("E") + 32

ELFMAG1 == CharLit("E")           \* #define ELFMAG1 'E'
ELFMAG2 == CharLit("L")           \* #define ELFMAG2 'L'
ELFMAG3 == CharLit("F")           \* #define ELFMAG3 'F'

\* The identification-byte check of a consumer: e_ident[0..3] against the
\* four magic constants (e_ident[i] is position i + 1 of the buffer).
IsElfIdent(e_ident) ==
    /\ e_ident[1] = ELFMAG0
    /\ e_ident[2] = ELFMAG1
    /\ e_ident[3] = ELFMAG2
    /\ e_ident[4] = ELFMAG3

\* The values bytes 0..3 of a buffer are drawn from: the first
\* NumIdentSamples of this list.
IdentSamples == <<127, 69, 76, 70, 0, 255, 101, 128>>
NumIdentSamples == 5
IdentVals == {IdentSamples[k] : k \in 1..NumIdentSamples}

IdentInit ==
    \E b0 \in IdentVals, b1 \in IdentVals, b2 \in IdentVals, b3 \in IdentVals,
       cl \in {0, ELFCLASS32, ELFCLASS64}, da \in {ELFDATA2LSB, ELFDATA2MSB} :
        ident = [phase |-> "read",
                 e_ident |-> <<b0, b1, b2, b3, cl, da, EV_CURRENT>>
                             \o Fill(EI_NIDENT - 7, 0),
                 accepted |-> FALSE]

CheckIdent ==
    /\ ident.phase = "read"
    /\ ident' = [ident EXCEPT !.phase = "checked",
                              !.accepted = IsElfIdent(ident.e_ident)]
    /\ UNCHANGED <<reloc, layout, konst, sym, flt, cpp>>

IdentNext == CheckIdent

InitIdent ==
    /\ IdentInit
    /\ reloc = Idle /\ layout = Idle /\ konst = Idle
    /\ sym = Idle /\ flt = Idle /\ cpp = Idle

SpecIdent == InitIdent /\ [][IdentNext]_vars

\* C8: a 16-byte identification buffer is accepted exactly when its bytes
\* 0..3 are 0x7f, 0x45, 0x4c, 0x46, whatever bytes 4..15 are.
MagicAcceptedExactly ==
    /\ Len(ident.e_ident) = 16
    /\ ident.phase = "checked" =>
          (ident.accepted <=> SubSeq(ident.e_ident, 1, 4) = <<127, 69, 76, 70>>)

MagicWitness ==
    /\ ident.phase = "checked"
    /\ ident.accepted
    /\ ident.e_ident[5] = 2 /\ ident.e_ident[6] = 1

----------------------------------------------------------------------------
(* ios-elf.h, lines 53-67 and 119: the binding and the type of a symbol    *)
(* in the one-byte st_info member.                                         *)

\* Binding, type and their packing, by the ELF convention the specification
\* states: i >> 4, i & 0xf and (b << 4) + (t & 0xf).
ELF64_ST_BIND(i) == i \div 16
ELF64_ST_TYPE(i) == i % 16
ELF64_ST_INFO(b, t) == b * 16 + (t % 16)

\* The declared type of a member of a record.
MemberType(ms, name) ==
    (CHOOSE k \in 1..Len(ms) : ms[k].name = name)

\* A value stored into the st_info member: reduced modulo 2^(8 * width).
StoreStInfo(n) ==
    n % Pow2(8 * SizeOf(Elf64_Sym[MemberType(Elf64_Sym, "st_info")].type))

SymInit ==
    \/ \E b \in 0..(Pow2(8 * SizeOf("unsigned char")) - 1) :
          sym = [phase |-> "byte", bind |-> "", type |-> "", wide |-> 0,
                 st_info |-> b, rbind |-> 0, rtype |-> 0]
    \/ \E bi \in BindingNames, ty \in SymTypeNames :
          sym = [phase |-> "args", bind |-> bi, type |-> ty, wide |-> 0,
                 st_info |-> 0, rbind |-> 0, rtype |-> 0]

\* Binding and type of a given st_info byte.
ReadInfo ==
    /\ sym.phase = "byte"
    /\ sym' = [sym EXCEPT !.phase = "read",
                          !.rbind = ELF64_ST_BIND(sym.st_info),
                          !.rtype = ELF64_ST_TYPE(sym.st_info)]
    /\ UNCHANGED <<reloc, layout, konst, ident, flt, cpp>>

\* st_info = ELF64_ST_INFO(bind, type) for a named binding and type.
StoreInfo ==
    /\ sym.phase = "args"
    /\ LET w == ELF64_ST_INFO(MacroValue(sym.bind), MacroValue(sym.type))
       IN  sym' = [sym EXCEPT !.phase = "stored",
                              !.wide = w,
                              !.st_info = StoreStInfo(w)]
    /\ UNCHANGED <<reloc, layout, konst, ident, flt, cpp>>

ReadStored ==
    /\ sym.phase = "stored"
    /\ sym' = [sym EXCEPT !.phase = "reread",
                          !.rbind = ELF64_ST_BIND(sym.st_info),
                          !.rtype = ELF64_ST_TYPE(sym.st_info)]
    /\ UNCHANGED <<reloc, layout, konst, ident, flt, cpp>>

SymNext == ReadInfo \/ StoreInfo \/ ReadStored

InitSym ==
    /\ SymInit
    /\ reloc = Idle /\ layout = Idle /\ konst = Idle
    /\ ident = Idle /\ flt = Idle /\ cpp = Idle

SpecSym == InitSym /\ [][SymNext]_vars

\* C9: binding and type are the top and the bottom four bits of st_info,
\* and for every defined binding (below STB_NUM = 3) and type (below
\* STT_NUM = 7) the packed value fits in the byte and gives both back.
InfoByteNibbles ==
    /\ sym.phase = "read" =>
          /\ sym.rbind \in 0..15 /\ sym.rtype \in 0..15
          /\ sym.st_info = sym.rbind * 16 + sym.rtype
    /\ sym.phase \in {"args", "stored", "reread"} =>
          /\ STB_NUM = 3 /\ STT_NUM = 7
          /\ MacroValue(sym.bind) \in 0..(STB_NUM - 1)
          /\ MacroValue(sym.type) \in 0..(STT_NUM - 1)
    /\ sym.phase \in {"stored", "reread"} =>
          /\ sym.wide < 256
          /\ sym.st_info = sym.wide
    /\ sym.phase = "reread" =>
          /\ sym.rbind = MacroValue(sym.bind)
          /\ sym.rtype = MacroValue(sym.type)

InfoByteWitness ==
    /\ sym.phase = "reread"
    /\ sym.bind = "STB_WEAK" /\ sym.type = "STT_TLS"
    /\ sym.st_info = 38

----------------------------------------------------------------------------
(* ios-elf.h, lines 139-142: the relocation-info helper macros, applied to *)
(* uint64_t operands (the type of Elf64_Rela.r_info).                      *)

\* 0xffffffff, converted to the 64-bit type of the other operand.
Mask32 == Hex64(0, 0, 65535, 65535)

\* The extraction with a 16-bit shift.
ELF64_R_SYM_shift16(i) == WordShr(i, 16)

\* #define ELF64_R_SYM(i)  ((i) >> 32)
ELF64_R_SYM(i) == WordShr(i, 32)

\* The extraction with a 16-bit mask.
ELF64_R_TYPE_mask16(i) == WordAnd(i, Hex64(0, 0, 0, 65535))

\* #define ELF64_R_TYPE(i) ((i) & 0xffffffff)
ELF64_R_TYPE(i) == WordAnd(i, Mask32)

\* The macro with a 16-bit shift.
ELF64_R_INFO_shift16(s, t) == WordAdd(WordShl(s, 16), WordAnd(t, Mask32))

\* The macro without its mask on t.
ELF64_R_INFO_nomask(s, t) == WordAdd(WordShl(s, 32), t)

\* #define ELF64_R_INFO(s,t)  (((s) << 32) + ((t) & 0xffffffff))
ELF64_R_INFO(s, t) == WordAdd(WordShl(s, 32), WordAnd(t, Mask32))

\* The limb values the operands are built from: the first NumLimbSamples of
\* this list (the edges of a limb first).  The operands of the documented
\* scenario, symbol index 5 and R_X86_64_PC32, are always among them.
LimbSamples == <<0, 65535, 32768, 1, 32767, 65534, 5, 2>>
NumLimbSamples == 3
LimbVals == {LimbSamples[k] : k \in 1..NumLimbSamples}
U64Vals ==
    {<<a, b, c, d>> : a \in LimbVals, b \in LimbVals,
                      c \in LimbVals, d \in LimbVals}
    \cup {U64(5), U64(R_X86_64_PC32)}

\* A caller packs (s, t) and then unpacks the result, or unpacks a given
\* r_info value v and packs the two parts again.
RelocInit ==
    \/ \E s \in U64Vals, t \in U64Vals :
          reloc = [phase |-> "args", s |-> s, t |-> t, v |-> NoWord,
                   info |-> NoWord, rsym |-> NoWord, rtype |-> NoWord]
    \/ \E v \in U64Vals :
          reloc = [phase |-> "given", s |-> NoWord, t |-> NoWord, v |-> v,
                   info |-> NoWord, rsym |-> NoWord, rtype |-> NoWord]

Pack ==
    /\ reloc.phase = "args"
    /\ reloc' = [reloc EXCEPT !.phase = "packed",
                              !.info = ELF64_R_INFO(reloc.s, reloc.t)]
    /\ UNCHANGED <<layout, konst, ident, sym, flt, cpp>>

Unpack ==
    /\ reloc.phase = "packed"
    /\ reloc' = [reloc EXCEPT !.phase = "unpacked",
                              !.rsym = ELF64_R_SYM(reloc.info),
                              !.rtype = ELF64_R_TYPE(reloc.info)]
    /\ UNCHANGED <<layout, konst, ident, sym, flt, cpp>>

UnpackGiven ==
    /\ reloc.phase = "given"
    /\ reloc' = [reloc EXCEPT !.phase = "split",
                              !.rsym = ELF64_R_SYM(reloc.v),
                              !.rtype = ELF64_R_TYPE(reloc.v)]
    /\ UNCHANGED <<layout, konst, ident, sym, flt, cpp>>

Repack ==
    /\ reloc.phase = "split"
    /\ reloc' = [reloc EXCEPT !.phase = "repacked",
                              !.info = ELF64_R_INFO(reloc.rsym, reloc.rtype)]
    /\ UNCHANGED <<layout, konst, ident, sym, flt, cpp>>

RelocNext == Pack \/ Unpack \/ UnpackGiven \/ Repack

InitReloc ==
    /\ RelocInit
    /\ layout = Idle /\ konst = Idle /\ ident = Idle
    /\ sym = Idle /\ flt = Idle /\ cpp = Idle

SpecReloc == InitReloc /\ [][RelocNext]_vars

\* Decimal digits of a word, most significant first (<<>> for zero), by
\* repeated long division by ten.
RECURSIVE Rem10(_, _)
Rem10(x, k) == IF k = 0 THEN 0 ELSE (Rem10(x, k - 1) * LimbMod + x[k]) % 10

Div10(x) == [k \in 1..Len(x) |-> (Rem10(x, k - 1) * LimbMod + x[k]) \div 10]

RECURSIVE Decimal(_)
Decimal(x) ==
    IF \A k \in 1..Len(x) : x[k] = 0 THEN <<>>
    ELSE Append(Decimal(Div10(x)), Rem10(x, Len(x)))

\* C1: splitting any 64-bit r_info value v with ELF64_R_SYM and ELF64_R_TYPE
\* and packing the two parts again with ELF64_R_INFO gives v back.
RoundTripIdentity ==
    reloc.phase = "repacked" => reloc.info = reloc.v

RoundTripWitness ==
    /\ reloc.phase = "repacked"
    /\ reloc.v[1] # 0 /\ reloc.v[2] # 0 /\ reloc.v[3] # 0 /\ reloc.v[4] # 0

\* C2: the sum ELF64_R_INFO computes equals the bitwise or
\* (s << 32) | (t & 0xffffffff) for all operands, and packing symbol index 5
\* with type 2 gives 21474836482, which unpacks to 5 and 2.
PackIsBitwiseOr ==
    /\ reloc.phase \in {"packed", "unpacked"} =>
          reloc.info = WordOr(WordShl(reloc.s, 32), WordAnd(reloc.t, Mask32))
    /\ reloc.phase \in {"packed", "unpacked"}
          /\ reloc.s = U64(5) /\ reloc.t = U64(R_X86_64_PC32) =>
          Decimal(reloc.info) = <<2, 1, 4, 7, 4, 8, 3, 6, 4, 8, 2>>
    /\ reloc.phase = "unpacked" /\ reloc.s = U64(5) /\ reloc.t = U64(R_X86_64_PC32) =>
          reloc.rsym = U64(5) /\ reloc.rtype = U64(2)

PackIsBitwiseOrWitness ==
    /\ reloc.phase = "unpacked"
    /\ reloc.s = U64(5) /\ reloc.t = U64(R_X86_64_PC32)

\* C3: the symbol index read back from a packed value is sym & 0xffffffff:
\* unchanged below 2^32, cut to its low 32 bits otherwise, whatever the type.
SymIsLow32OfSym ==
    reloc.phase = "unpacked" =>
        /\ reloc.rsym = WordAnd(reloc.s, Mask32)
        /\ (reloc.s[1] = 0 /\ reloc.s[2] = 0 => reloc.rsym = reloc.s)
        /\ reloc.rsym[1] = 0 /\ reloc.rsym[2] = 0

SymTruncationWitness ==
    /\ reloc.phase = "unpacked"
    /\ reloc.s[1] # 0 /\ reloc.s[2] # 0 /\ reloc.s[4] # 0
    /\ reloc.t[1] # 0 /\ reloc.t[2] # 0
    /\ reloc.rsym # reloc.s

\* C4: the type read back from a packed value is type & 0xffffffff, whatever
\* the symbol index.
TypeIsLow32OfType ==
    reloc.phase = "unpacked" => reloc.rtype = WordAnd(reloc.t, Mask32)

TypeWitness ==
    /\ reloc.phase = "unpacked"
    /\ reloc.s[3] = 65535 /\ reloc.s[4] = 65535
    /\ reloc.t[1] # 0 /\ reloc.t[3] = 65535 /\ reloc.t[4] = 65535

----------------------------------------------------------------------------
(* ios-math-compat.h, lines 47-58: the bit-pattern classification of a     *)
(* float, given by its 32 bits <<high limb, low limb>> (what the union     *)
(* read u.i yields for the argument x).                                    *)

\* The comparison without the sign-bit mask.
ios_isnanf_nomask(bits) ==
    IF WordGt(bits, Hex32(32640, 0)) THEN 1 ELSE 0

\* return (u.i & 0x7fffffff) > 0x7f800000;
ios_isnanf(bits) ==
    IF WordGt(WordAnd(bits, Hex32(32767, 65535)), Hex32(32640, 0))
    THEN 1 ELSE 0

\* return (u.i & 0x7fffffff) == 0x7f800000;
ios_isinff(bits) ==
    IF WordAnd(bits, Hex32(32767, 65535)) = Hex32(32640, 0)
    THEN 1 ELSE 0

\* High limbs around the edges of the classes (zero, 1.0, infinity, the
\* quiet NaN 0x7fc0, the sign bit, their negatives) and low limbs at both
\* ends, each within FloatSpread of the edge.
FloatSpread == 8
HighEdges == {0, 16256, 32640, 32704, 32768, 49024, 65408, 65472, 65535}
HighVals ==
    {h \in 0..65535 : \E e \in HighEdges : h - e \in (0 - FloatSpread)..FloatSpread}
LowVals == (0..FloatSpread) \cup ((65535 - FloatSpread)..65535)

FltInit ==
    \E h \in HighVals, l \in LowVals :
        flt = [phase |-> "arg", bits |-> Hex32(h, l), nanCalled |-> FALSE, nan |-> 0,
               infCalled |-> FALSE, inf |-> 0]

CallIsnanf ==
    /\ flt.phase = "arg"
    /\ ~flt.nanCalled
    /\ flt' = [flt EXCEPT !.nanCalled = TRUE, !.nan = ios_isnanf(flt.bits)]
    /\ UNCHANGED <<reloc, layout, konst, ident, sym, cpp>>

CallIsinff ==
    /\ flt.phase = "arg"
    /\ ~flt.infCalled
    /\ flt' = [flt EXCEPT !.infCalled = TRUE, !.inf = ios_isinff(flt.bits)]
    /\ UNCHANGED <<reloc, layout, konst, ident, sym, cpp>>

FltNext == CallIsnanf \/ CallIsinff

InitFlt ==
    /\ FltInit
    /\ reloc = Idle /\ layout = Idle /\ konst = Idle
    /\ ident = Idle /\ sym = Idle /\ cpp = Idle

SpecFlt == InitFlt /\ [][FltNext]_vars

\* The pattern without its sign bit, as a number (below 2^31).
Magnitude(bits) == (bits[1] % 32768) * 65536 + bits[2]
\* The IEEE-754 single-precision fields: 8 exponent bits, 23 mantissa bits.
Exponent(bits) == (bits[1] \div 128) % 256
Mantissa(bits) == (bits[1] % 128) * 65536 + bits[2]

\* C7: ios_isnanf is 1 exactly when the pattern without its sign bit
\* exceeds 0x7f800000 and ios_isinff exactly when it equals it; this is the
\* IEEE-754 classification for either sign, no pattern is both, and
\* 0x7f800000 is infinite, 0x7fc00000 NaN and 0x3f800000 neither.
FloatClassification ==
    /\ flt.phase = "arg"
    /\ flt.nanCalled =>
          /\ flt.nan \in {0, 1}
          /\ flt.nan = 1 <=> Magnitude(flt.bits) > 2139095040
          /\ flt.nan = 1 <=>
                (Exponent(flt.bits) = 255 /\ Mantissa(flt.bits) # 0)
    /\ flt.infCalled =>
          /\ flt.inf \in {0, 1}
          /\ flt.inf = 1 <=> Magnitude(flt.bits) = 2139095040
          /\ flt.inf = 1 <=>
                (Exponent(flt.bits) = 255 /\ Mantissa(flt.bits) = 0)
    /\ flt.nanCalled /\ flt.infCalled =>
          /\ ~(flt.nan = 1 /\ flt.inf = 1)
          /\ flt.bits = Hex32(32640, 0) => flt.inf = 1 /\ flt.nan = 0
          /\ flt.bits = Hex32(32704, 0) => flt.nan = 1 /\ flt.inf = 0
          /\ flt.bits = Hex32(16256, 0) => flt.nan = 0 /\ flt.inf = 0

\* A negative NaN classified by both functions.
FloatWitness ==
    /\ flt.nanCalled /\ flt.infCalled
    /\ flt.bits = Hex32(65472, 1)
    /\ flt.nan = 1 /\ flt.inf = 0

----------------------------------------------------------------------------
(* ios-math-compat.h, lines 1-72: the preprocessor's pass over the header. *)
(* A name's definition is "undefined", "prior" (made before the header),   *)
(* "math.h" (made by the system header included at line 7), "__builtin"    *)
(* (a fallback of lines 14-45) or "ios" (the override of lines 61-65).     *)

MathNames ==
    {"isnanf", "isinff", "isfinitef", "isnan", "isinf", "isfinite",
     "signbit", "fpclassify"}

\* The #ifndef blocks of lines 14-45, in order.
FallbackBlocks ==
    <<"isnanf", "isinff", "isfinitef", "isnan", "isinf", "isfinite",
      "signbit", "fpclassify">>

\* #define without the enclosing #ifndef.
FallbackDef_unguarded(cur) == "__builtin"

\* #ifndef name / #define name(x) __builtin_...(x) / #endif
FallbackDef(cur) == IF cur = "undefined" THEN "__builtin" ELSE cur

\* The translation unit includes the header at most MaxIncludes times.
MaxIncludes == 2

\* Before the first inclusion each name is undefined or defined, <math.h>
\* was included or not, and __arm64__ is defined or not.
CppInit ==
    \E prior \in [MathNames -> {"undefined", "prior"}],
       math_h \in BOOLEAN, arm64 \in BOOLEAN :
        cpp = [pc |-> "out", block |-> 0, includes |-> 0, guard |-> FALSE,
               math_h |-> math_h, arm64 |-> arm64, funcs |-> FALSE,
               defs |-> prior, prior |-> prior, done |-> <<>>]

\* #include "ios-math-compat.h"
Include ==
    /\ cpp.pc = "out"
    /\ cpp.includes < MaxIncludes
    /\ cpp' = [cpp EXCEPT !.pc = "guard", !.includes = cpp.includes + 1]
    /\ UNCHANGED <<reloc, layout, konst, ident, sym, flt>>

\* Lines 1-2: #ifndef IOS_MATH_COMPAT_H skips to line 72 when the guard is
\* defined, and defines it otherwise.
GuardTest ==
    /\ cpp.pc = "guard"
    /\ IF cpp.guard
       THEN cpp' = [cpp EXCEPT !.pc = "end"]
       ELSE cpp' = [cpp EXCEPT !.pc = "math.h", !.guard = TRUE]
    /\ UNCHANGED <<reloc, layout, konst, ident, sym, flt>>

\* Line 7: #include <math.h>.  The system header is no part of the
\* repository: behind its own guard it may define any of the names that have
\* no definition (giving a defined macro another definition is a constraint
\* violation, so it leaves the defined names alone).
IncludeMathH ==
    /\ cpp.pc = "math.h"
    /\ \E D \in SUBSET {n \in MathNames : cpp.defs[n] = "undefined"} :
          /\ cpp.math_h => D = {}
          /\ cpp' = [cpp EXCEPT
                       !.pc = "fallback", !.block = 1, !.math_h = TRUE,
                       !.defs = [n \in MathNames |->
                                   IF n \in D THEN "math.h" ELSE cpp.defs[n]]]
    /\ UNCHANGED <<reloc, layout, konst, ident, sym, flt>>

\* Lines 14-45: one #ifndef block.
DefineFallback ==
    /\ cpp.pc = "fallback"
    /\ LET name == FallbackBlocks[cpp.block]
       IN  cpp' = [cpp EXCEPT
                     !.defs[name] = FallbackDef(cpp.defs[name]),
                     !.block = IF cpp.block = Len(FallbackBlocks)
                               THEN 0 ELSE cpp.block + 1,
                     !.pc = IF cpp.block = Len(FallbackBlocks)
                            THEN "arm64" ELSE "fallback"]
    /\ UNCHANGED <<reloc, layout, konst, ident, sym, flt>>

\* Lines 48-58: #ifdef __arm64__, and the two functions it defines.
Arm64Test ==
    /\ cpp.pc = "arm64"
    /\ IF cpp.arm64
       THEN cpp' = [cpp EXCEPT !.pc = "isnanf", !.funcs = TRUE]
       ELSE cpp' = [cpp EXCEPT !.pc = "end"]
    /\ UNCHANGED <<reloc, layout, konst, ident, sym, flt>>

\* Lines 61-62: #undef isnanf / #define isnanf ios_isnanf
OverrideIsnanf ==
    /\ cpp.pc = "isnanf"
    /\ cpp' = [cpp EXCEPT !.pc = "isinff", !.defs["isnanf"] = "ios"]
    /\ UNCHANGED <<reloc, layout, konst, ident, sym, flt>>

\* Lines 64-66: #undef isinff / #define isinff ios_isinff / #endif
OverrideIsinff ==
    /\ cpp.pc = "isinff"
    /\ cpp' = [cpp EXCEPT !.pc = "end", !.defs["isinff"] = "ios"]
    /\ UNCHANGED <<reloc, layout, konst, ident, sym, flt>>

\* Line 72: the end of the header; the definitions it leaves are recorded.
EndOfHeader ==
    /\ cpp.pc = "end"
    /\ cpp' = [cpp EXCEPT !.pc = "out", !.done = Append(cpp.done, cpp.defs)]
    /\ UNCHANGED <<reloc, layout, konst, ident, sym, flt>>

CppNext ==
    \/ Include
    \/ GuardTest
    \/ IncludeMathH
    \/ DefineFallback
    \/ Arm64Test
    \/ OverrideIsnanf
    \/ OverrideIsinff
    \/ EndOfHeader

InitCpp ==
    /\ CppInit
    /\ reloc = Idle /\ layout = Idle /\ konst = Idle
    /\ ident = Idle /\ sym = Idle /\ flt = Idle

SpecCpp == InitCpp /\ [][CppNext]_vars

Arm64Overridden == {"isnanf", "isinff"}

\* C10: after the header every name is defined; a name defined before keeps
\* that definition and only a name undefined before gets the __builtin_
\* fallback, except that with __arm64__ isnanf and isinff end as ios_isnanf
\* and ios_isinff and no other name does; a second inclusion changes nothing.
HeaderLeavesNamesDefined ==
    /\ Len(cpp.done) >= 1 =>
          LET after == cpp.done[1]
          IN  /\ \A n \in MathNames : after[n] # "undefined"
              /\ \A n \in MathNames :
                    /\ cpp.prior[n] = "prior"
                          /\ ~(cpp.arm64 /\ n \in Arm64Overridden)
                          => after[n] = "prior"
                    /\ after[n] = "__builtin" => cpp.prior[n] = "undefined"
                    /\ after[n] = "ios" <=>
                          (cpp.arm64 /\ n \in Arm64Overridden)
              /\ cpp.pc = "out" => cpp.defs = cpp.done[Len(cpp.done)]
    /\ \A k \in 2..Len(cpp.done) : cpp.done[k] = cpp.done[1]

HeaderWitness ==
    /\ Len(cpp.done) = 2
    /\ cpp.arm64
    /\ cpp.prior["isnanf"] = "prior" /\ cpp.done[2]["isnanf"] = "ios"
    /\ cpp.prior["isfinitef"] = "prior" /\ cpp.done[2]["isfinitef"] = "prior"
    /\ cpp.prior["isnan"] = "undefined" /\ cpp.done[2]["isnan"] = "math.h"
    /\ cpp.prior["signbit"] = "undefined" /\ cpp.done[2]["signbit"] = "__builtin"

----------------------------------------------------------------------------
(* The two headers together: a run exercises one of their parts.           *)

Init ==
    \/ InitReloc
    \/ InitLayout
    \/ InitKonst
    \/ InitIdent
    \/ InitSym
    \/ InitFlt
    \/ InitCpp

Next ==
    \/ RelocNext
    \/ LayoutNext
    \/ KonstNext
    \/ IdentNext
    \/ SymNext
    \/ FltNext
    \/ CppNext

Spec == Init /\ [][Next]_vars

=============================================================================
